---- MODULE Spec2Model ----
(***************************************************************************)
(* Model of ptrace.py: an ICMP traceroute.                                 *)
(*                                                                         *)
(*   ICMPPacket   builds a 16-byte echo request and its checksum           *)
(*   ICMPSocket   a raw socket: open, set_ttl, send_packet, receive, close *)
(*   Traceroute   resolves the destination and probes TTL 1..max_hops      *)
(*                                                                         *)
(* Bytes are naturals 0..255 and a byte string is a sequence of them.      *)
(* struct.pack uses native order and alignment; the model is that of a     *)
(* little-endian host, where 'bbHHh' packs to 8 bytes without padding.     *)
(* A timestamp is represented by its 8-byte IEEE-754 encoding, i.e. by     *)
(* the value struct.pack('d', timestamp) returns.                          *)
(***************************************************************************)
EXTENDS Integers, Sequences, FiniteSets, TLC

VARIABLES
    pc,         \* position of the single thread of control
    argc,       \* len(sys.argv)
    max_hops,   \* Traceroute.max_hops
    dest_addr,  \* run(): dest_addr, None until resolved
    ttl,        \* run(): loop variable, 0 before the first iteration
    sock,       \* run(): the handle bound to `sock`, 0 when there is none
    handles,    \* every handle opened so far: its ttl and its close() count
    icmp,       \* the ICMPPacket instance: [id, timestamp]
    packet,     \* the bytes ICMPPacket.create returned
    addr,       \* run(): responder address of the current hop
    host,       \* run(): name printed for the current hop
    pending,    \* what the finally block resumes: next iteration, break, raise
    out,        \* hop lines printed so far
    log,        \* transport and resolver calls made so far, in order
    uncaught,   \* exception that left run(), "none" otherwise
    exit_code,  \* process exit status (implicit 0)
    start_time, \* run(): start_time, -1 while unbound
    end_time,   \* run(): end_time, -1 while unbound
    recv_data,  \* run(): data, the bytes of the datagram received last
    rx,         \* what each receive() did: datagram and its source, timeout, error
    buffer,     \* _calculate_checksum: the argument `packet`
    returned    \* _calculate_checksum: the value returned, -1 before the call

\* the locals of run() that time the hop
clock == <<start_time, end_time>>

\* the datagram of the current hop and the record of the receive outcomes
wire == <<recv_data, rx>>

\* argument and result of a direct call of _calculate_checksum
codec == <<buffer, returned>>

vars == <<pc, argc, max_hops, dest_addr, ttl, sock, handles, icmp, packet,
          addr, host, pending, out, log, uncaught, exit_code, clock, wire,
          codec>>

-----------------------------------------------------------------------------
(* Bounds of the model *)

MaxHops == 4

\* longest buffer handed to _calculate_checksum directly
MaxBufLen == 5

\* identifiers 0..MaxId are tried, with some beyond them
MaxId == 300

(* Environment: the network's addresses, the resolver, the clock *)

None == "None"

DestAddr == "10.0.0.9"

Addrs == {"10.0.0.1", "10.0.0.2", DestAddr}

Name(ip) == "host-" \o ip

\* What a datagram read from the socket may hold, as its ICMP type and code:
\* time exceeded, echo reply, port unreachable
Datagrams == { <<11, 0>>, <<0, 0>>, <<3, 3>> }

\* struct.pack('d', t) for t = 1794000000.0 and t = 1794000000.0450764
Timestamps ==
    { <<0, 0, 0, 32, 145, 187, 218, 65>>,
      <<136, 226, 2, 32, 145, 187, 218, 65>> }

-----------------------------------------------------------------------------
(* ICMPPacket *)

\* struct.pack('b', v): one signed byte
PackB(v) == <<v % 256>>

\* struct.pack('H', v) and struct.pack('h', v): 16 bits, low byte first
PackH(v) == <<(v % 65536) % 256, (v % 65536) \div 256>>

\* the identifier is packed before the checksum
Header_Swapped(checksum, id) ==
    PackB(8) \o PackB(0) \o PackH(id) \o PackH(checksum) \o PackH(1)

\* struct.pack('bbHHh', 8, 0, checksum, id, 1)
Header(checksum, id) ==
    PackB(8) \o PackB(0) \o PackH(checksum) \o PackH(id) \o PackH(1)

RECURSIVE SumWords(_, _)
\* the for loop of _calculate_checksum from (1-based) index i on
SumWords(bytes, i) ==
    IF i > Len(bytes) THEN 0
    ELSE (IF i + 1 <= Len(bytes)
             THEN bytes[i] + bytes[i + 1] * 256
             ELSE bytes[i])
         + SumWords(bytes, i + 2)

\* checksum = (checksum >> 16) + (checksum & 0xffff): one fold
Fold(checksum) == (checksum \div 65536) + (checksum % 65536)

\* ~checksum & 0xffff
Complement16(checksum) == 65535 - (checksum % 65536)

_calculate_checksum(bytes) == Complement16(Fold(SumWords(bytes, 1)))

create(p) ==
    LET header0  == Header(0, p.id)
        data     == p.timestamp
        checksum == _calculate_checksum(header0 \o data)
    IN  Header(checksum, p.id) \o data

-----------------------------------------------------------------------------
(* State after the interpreter has loaded the module *)

Init ==
    /\ pc = "main"
    /\ argc \in {1, 2, 3}
    /\ max_hops \in 0..MaxHops
    /\ dest_addr = None
    /\ ttl = 0
    /\ sock = 0
    /\ handles = <<>>
    /\ icmp = [id |-> 0, timestamp |-> <<>>]
    /\ packet = <<>>
    /\ addr = None
    /\ host = None
    /\ pending = "none"
    /\ out = <<>>
    /\ log = <<>>
    /\ uncaught = "none"
    /\ exit_code = 0
    /\ start_time = -1
    /\ end_time = -1
    /\ recv_data = <<>>
    /\ rx = <<>>
    /\ buffer = <<>>
    /\ returned = -1

Event(op, h, t) == [op |-> op, h |-> h, ttl |-> t]

Logged(op, h, t) == log' = Append(log, Event(op, h, t))

Calls(op) == Cardinality({i \in 1..Len(log) : log[i].op = op})

\* time.time(): a logical clock, the number of calls made so far
time_time == Len(log)

\* one entry of rx
Received(kind, src) == [ttl |-> ttl, kind |-> kind, src |-> src]

OpenHandles == {h \in 1..Len(handles) : handles[h].closes = 0}

\* an exception leaves run() and the interpreter: traceback, status 1
Raise(exc) ==
    /\ uncaught' = exc
    /\ exit_code' = 1
    /\ pc' = "done"

\* run() returns and the script ends
Return ==
    /\ pc' = "done"
    /\ UNCHANGED <<uncaught, exit_code>>

-----------------------------------------------------------------------------
(* __main__ *)

Usage ==
    /\ pc = "main"
    /\ argc # 2
    /\ exit_code' = 1
    /\ uncaught' = "SystemExit"
    /\ pc' = "done"
    /\ UNCHANGED <<clock, wire, codec>>
    /\ UNCHANGED <<argc, max_hops, dest_addr, ttl, sock, handles, icmp, packet,
                   addr, host, pending, out, log>>

Main ==
    /\ pc = "main"
    /\ argc = 2
    /\ pc' = "resolve"
    /\ UNCHANGED <<clock, wire, codec>>
    /\ UNCHANGED <<argc, max_hops, dest_addr, ttl, sock, handles, icmp, packet,
                   addr, host, pending, out, log, uncaught, exit_code>>

-----------------------------------------------------------------------------
(* Traceroute.resolve_destination and the check that follows it in run() *)

ResolveOk ==
    /\ pc = "resolve"
    /\ dest_addr' = DestAddr
    /\ Logged("gethostbyname", 0, 0)
    /\ pc' = "loop"
    /\ UNCHANGED <<clock, wire, codec>>
    /\ UNCHANGED <<argc, max_hops, ttl, sock, handles, icmp, packet, addr, host,
                   pending, out, uncaught, exit_code>>

\* missing `if not dest_addr: return`
ResolveFail_NoReturn ==
    /\ pc = "resolve"
    /\ dest_addr' = None
    /\ Logged("gethostbyname", 0, 0)
    /\ pc' = "loop"
    /\ UNCHANGED <<clock, wire, codec>>
    /\ UNCHANGED <<argc, max_hops, ttl, sock, handles, icmp, packet, addr, host,
                   pending, out, uncaught, exit_code>>

\* socket.gaierror: the message is printed, None returned, and run() returns
ResolveFail ==
    /\ pc = "resolve"
    /\ dest_addr' = None
    /\ Logged("gethostbyname", 0, 0)
    /\ Return
    /\ UNCHANGED <<clock, wire, codec>>
    /\ UNCHANGED <<argc, max_hops, ttl, sock, handles, icmp, packet, addr, host,
                   pending, out>>

-----------------------------------------------------------------------------
(* run(): for ttl in range(1, self.max_hops + 1) *)

\* range(1, self.max_hops + 2)
LoopNext_OneMore ==
    /\ pc = "loop"
    /\ IF ttl < max_hops + 1
          THEN /\ ttl' = ttl + 1
               /\ pc' = "open"
               /\ UNCHANGED <<uncaught, exit_code>>
          ELSE /\ ttl' = ttl
               /\ Return
    /\ UNCHANGED <<clock, wire, codec>>
    /\ UNCHANGED <<argc, max_hops, dest_addr, sock, handles, icmp, packet, addr,
                   host, pending, out, log>>

LoopNext ==
    /\ pc = "loop"
    /\ IF ttl < max_hops
          THEN /\ ttl' = ttl + 1
               /\ pc' = "open"
               /\ UNCHANGED <<uncaught, exit_code>>
          ELSE /\ ttl' = ttl
               /\ Return
    /\ UNCHANGED <<clock, wire, codec>>
    /\ UNCHANGED <<argc, max_hops, dest_addr, sock, handles, icmp, packet, addr,
                   host, pending, out, log>>

-----------------------------------------------------------------------------
(* ICMPSocket(timeout=self.timeout) *)

OpenOk ==
    /\ pc = "open"
    /\ handles' = Append(handles, [ttl |-> ttl, closes |-> 0])
    /\ sock' = Len(handles) + 1
    /\ Logged("open", Len(handles) + 1, ttl)
    /\ pc' = "set_ttl"
    /\ UNCHANGED <<clock, wire, codec>>
    /\ UNCHANGED <<argc, max_hops, dest_addr, ttl, icmp, packet, addr, host,
                   pending, out, uncaught, exit_code>>

\* the PermissionError is swallowed and the constructor returns
OpenDenied_NoExit ==
    /\ pc = "open"
    /\ Logged("open_denied", 0, ttl)
    /\ pc' = "set_ttl"
    /\ UNCHANGED <<clock, wire, codec>>
    /\ UNCHANGED <<argc, max_hops, dest_addr, ttl, sock, handles, icmp, packet,
                   addr, host, pending, out, uncaught, exit_code>>

\* PermissionError in _create_socket: message, then sys.exit(1)
OpenDenied ==
    /\ pc = "open"
    /\ Logged("open_denied", 0, ttl)
    /\ Raise("SystemExit")
    /\ UNCHANGED <<clock, wire, codec>>
    /\ UNCHANGED <<argc, max_hops, dest_addr, ttl, sock, handles, icmp, packet,
                   addr, host, pending, out>>

-----------------------------------------------------------------------------
(* sock.set_ttl(ttl), outside the try statement *)

\* setsockopt(IPPROTO_IP, IP_TTL, ttl) takes a ttl of 1..255
SetTtlOk ==
    /\ pc = "set_ttl"
    /\ ttl \in 1..255
    /\ Logged("set_ttl", sock, ttl)
    /\ pc' = "create"
    /\ UNCHANGED <<clock, wire, codec>>
    /\ UNCHANGED <<argc, max_hops, dest_addr, ttl, sock, handles, icmp, packet,
                   addr, host, pending, out, uncaught, exit_code>>

\* setsockopt raises OSError, as it does for a ttl it does not take: nothing
\* catches it and no finally covers it
SetTtlError ==
    /\ pc = "set_ttl"
    /\ Logged("set_ttl", sock, ttl)
    /\ Raise("OSError")
    /\ UNCHANGED <<clock, wire, codec>>
    /\ UNCHANGED <<argc, max_hops, dest_addr, ttl, sock, handles, icmp, packet,
                   addr, host, pending, out>>

-----------------------------------------------------------------------------
(* packet = ICMPPacket(id=ttl, timestamp=time.time()).create() *)

CreatePacket ==
    /\ pc = "create"
    /\ \E t \in Timestamps :
          /\ icmp' = [id |-> ttl, timestamp |-> t]
          /\ packet' = create(icmp')
    /\ pc' = "send"
    /\ UNCHANGED <<clock, wire, codec>>
    /\ UNCHANGED <<argc, max_hops, dest_addr, ttl, sock, handles, addr, host,
                   pending, out, log, uncaught, exit_code>>

-----------------------------------------------------------------------------
(* sock.send_packet(packet, dest_addr), outside the try statement *)

\* sendto returns, then start_time = time.time()
SendOk ==
    /\ pc = "send"
    /\ Logged("send", sock, icmp.id)
    /\ start_time' = time_time'
    /\ pc' = "receive"
    /\ UNCHANGED <<end_time, wire, codec>>
    /\ UNCHANGED <<argc, max_hops, dest_addr, ttl, sock, handles, icmp, packet,
                   addr, host, pending, out, uncaught, exit_code>>

\* sendto raises OSError: nothing catches it and no finally covers it
SendError ==
    /\ pc = "send"
    /\ Logged("send", sock, icmp.id)
    /\ Raise("OSError")
    /\ UNCHANGED <<clock, wire, codec>>
    /\ UNCHANGED <<argc, max_hops, dest_addr, ttl, sock, handles, icmp, packet,
                   addr, host, pending, out>>

-----------------------------------------------------------------------------
(* try: data, addr = sock.receive() *)

\* only a time exceeded or an echo reply counts as the hop's answer; any
\* other datagram is dropped and the hop is reported as a timeout
ReceiveData_Validating ==
    /\ pc = "receive"
    /\ \E a \in Addrs, d \in Datagrams :
          /\ recv_data' = d
          /\ rx' = Append(rx, Received("data", a))
          /\ IF d[1] \in {0, 11}
                THEN /\ addr' = a
                     /\ pc' = "get_hostname"
                     /\ UNCHANGED <<out, pending>>
                ELSE /\ addr' = addr
                     /\ out' = Append(out, [ttl |-> ttl, addr |-> None,
                                            host |-> None, rtt |-> -1])
                     /\ pending' = "none"
                     /\ pc' = "finally"
    /\ Logged("receive", sock, ttl)
    /\ end_time' = time_time'
    /\ UNCHANGED <<start_time, codec>>
    /\ UNCHANGED <<argc, max_hops, dest_addr, ttl, sock, handles, icmp, packet,
                   host, uncaught, exit_code>>

\* recvfrom returns a datagram, then end_time = time.time(); addr = addr[0]
ReceiveData ==
    /\ pc = "receive"
    /\ \E a \in Addrs, d \in Datagrams :
          /\ recv_data' = d
          /\ addr' = a
          /\ rx' = Append(rx, Received("data", a))
    /\ Logged("receive", sock, ttl)
    /\ end_time' = time_time'
    /\ pc' = "get_hostname"
    /\ UNCHANGED <<start_time, codec>>
    /\ UNCHANGED <<argc, max_hops, dest_addr, ttl, sock, handles, icmp, packet,
                   host, pending, out, uncaught, exit_code>>

\* the except clause ends the loop
ReceiveTimeout_Break ==
    /\ pc = "receive"
    /\ Logged("receive", sock, ttl)
    /\ out' = Append(out, [ttl |-> ttl, addr |-> None, host |-> None, rtt |-> -1])
    /\ pending' = "break"
    /\ pc' = "finally"
    /\ rx' = Append(rx, Received("timeout", None))
    /\ UNCHANGED <<clock, recv_data, codec>>
    /\ UNCHANGED <<argc, max_hops, dest_addr, ttl, sock, handles, icmp, packet,
                   addr, host, uncaught, exit_code>>

\* the except clause goes on to the next TTL past the finally block
ReceiveTimeout_NoClose ==
    /\ pc = "receive"
    /\ Logged("receive", sock, ttl)
    /\ out' = Append(out, [ttl |-> ttl, addr |-> None, host |-> None, rtt |-> -1])
    /\ pending' = "none"
    /\ pc' = "loop"
    /\ rx' = Append(rx, Received("timeout", None))
    /\ UNCHANGED <<clock, recv_data, codec>>
    /\ UNCHANGED <<argc, max_hops, dest_addr, ttl, sock, handles, icmp, packet,
                   addr, host, uncaught, exit_code>>

\* except socket.timeout: the "* * *" line
ReceiveTimeout ==
    /\ pc = "receive"
    /\ Logged("receive", sock, ttl)
    /\ out' = Append(out, [ttl |-> ttl, addr |-> None, host |-> None, rtt |-> -1])
    /\ pending' = "none"
    /\ pc' = "finally"
    /\ rx' = Append(rx, Received("timeout", None))
    /\ UNCHANGED <<clock, recv_data, codec>>
    /\ UNCHANGED <<argc, max_hops, dest_addr, ttl, sock, handles, icmp, packet,
                   addr, host, uncaught, exit_code>>

\* the close is not in a finally block
ReceiveError_NoFinally ==
    /\ pc = "receive"
    /\ Logged("receive", sock, ttl)
    /\ Raise("OSError")
    /\ rx' = Append(rx, Received("error", None))
    /\ UNCHANGED <<clock, recv_data, codec>>
    /\ UNCHANGED <<argc, max_hops, dest_addr, ttl, sock, handles, icmp, packet,
                   addr, host, pending, out>>

\* recvfrom raises an OSError other than socket.timeout: no except clause
\* matches, the finally block runs and the exception goes on
ReceiveError ==
    /\ pc = "receive"
    /\ Logged("receive", sock, ttl)
    /\ pending' = "raise"
    /\ pc' = "finally"
    /\ rx' = Append(rx, Received("error", None))
    /\ UNCHANGED <<clock, recv_data, codec>>
    /\ UNCHANGED <<argc, max_hops, dest_addr, ttl, sock, handles, icmp, packet,
                   addr, host, out, uncaught, exit_code>>

-----------------------------------------------------------------------------
(* host = self.get_hostname(addr) *)

\* the socket.herror is not caught: it leaves the try statement
GetHostname_Raises ==
    /\ pc = "get_hostname"
    /\ \/ /\ host' = Name(addr)
          /\ Logged("gethostbyaddr", 0, ttl)
          /\ pc' = "print"
          /\ UNCHANGED pending
       \/ /\ host' = host
          /\ Logged("gethostbyaddr_herror", 0, ttl)
          /\ pending' = "raise"
          /\ pc' = "finally"
    /\ UNCHANGED <<clock, wire, codec>>
    /\ UNCHANGED <<argc, max_hops, dest_addr, ttl, sock, handles, icmp, packet,
                   addr, out, uncaught, exit_code>>

\* gethostbyaddr(ip)[0], or ip itself when socket.herror is raised: the one
\* error the resolver raises for the address string recvfrom returned
GetHostname ==
    /\ pc = "get_hostname"
    /\ \/ /\ host' = Name(addr)
          /\ Logged("gethostbyaddr", 0, ttl)
       \/ /\ host' = addr
          /\ Logged("gethostbyaddr_herror", 0, ttl)
    /\ pc' = "print"
    /\ UNCHANGED <<clock, wire, codec>>
    /\ UNCHANGED <<argc, max_hops, dest_addr, ttl, sock, handles, icmp, packet,
                   addr, pending, out, uncaught, exit_code>>

-----------------------------------------------------------------------------
(* print(...); if addr == dest_addr: break *)

\* the comparison with dest_addr is missing
PrintHop_NoBreak ==
    /\ pc = "print"
    /\ out' = Append(out, [ttl |-> ttl, addr |-> addr, host |-> host,
                           rtt |-> end_time - start_time])
    /\ pending' = "none"
    /\ pc' = "finally"
    /\ UNCHANGED <<clock, wire, codec>>
    /\ UNCHANGED <<argc, max_hops, dest_addr, ttl, sock, handles, icmp, packet,
                   addr, host, log, uncaught, exit_code>>

PrintHop ==
    /\ pc = "print"
    /\ out' = Append(out, [ttl |-> ttl, addr |-> addr, host |-> host,
                           rtt |-> end_time - start_time])
    /\ pending' = IF addr = dest_addr THEN "break" ELSE "none"
    /\ pc' = "finally"
    /\ UNCHANGED <<clock, wire, codec>>
    /\ UNCHANGED <<argc, max_hops, dest_addr, ttl, sock, handles, icmp, packet,
                   addr, host, log, uncaught, exit_code>>

-----------------------------------------------------------------------------
(* finally: sock.close(), then what the try statement was leaving for *)

\* the finally block does not close the socket
Close_NoClose ==
    /\ pc = "finally"
    /\ handles' = handles
    /\ log' = log
    /\ pending' = "none"
    /\ CASE pending = "raise" -> Raise("OSError")
         [] pending = "break" -> Return
         [] OTHER             -> pc' = "loop" /\ UNCHANGED <<uncaught, exit_code>>
    /\ UNCHANGED <<clock, wire, codec>>
    /\ UNCHANGED <<argc, max_hops, dest_addr, ttl, sock, icmp, packet, addr,
                   host, out>>

Close ==
    /\ pc = "finally"
    /\ handles' = [handles EXCEPT ![sock].closes = @ + 1]
    /\ Logged("close", sock, ttl)
    /\ pending' = "none"
    /\ CASE pending = "raise" -> Raise("OSError")
         [] pending = "break" -> Return
         [] OTHER             -> pc' = "loop" /\ UNCHANGED <<uncaught, exit_code>>
    /\ UNCHANGED <<clock, wire, codec>>
    /\ UNCHANGED <<argc, max_hops, dest_addr, ttl, sock, icmp, packet, addr,
                   host, out>>

-----------------------------------------------------------------------------

Next ==
    \/ Usage
    \/ Main
    \/ ResolveOk
    \/ ResolveFail
    \/ LoopNext
    \/ OpenOk
    \/ OpenDenied
    \/ SetTtlOk
    \/ SetTtlError
    \/ CreatePacket
    \/ SendOk
    \/ SendError
    \/ ReceiveData
    \/ ReceiveTimeout
    \/ ReceiveError
    \/ GetHostname
    \/ PrintHop
    \/ Close

Spec == Init /\ [][Next]_vars

\* the interpreter runs the single thread until the script ends
FairSpec == Spec /\ WF_vars(Next)

-----------------------------------------------------------------------------
(* ICMPPacket on its own: _calculate_checksum over arbitrary buffers, and   *)
(* create() over identifiers and payloads the trace itself never uses      *)

BufferBytes == {0, 1, 255}

Buffers == UNION {[1..n -> BufferBytes] : n \in 0..MaxBufLen}

Ids == (0..MaxId) \cup {4660, 32768, 65530, 65535}

Payloads ==
    Timestamps \cup
    { <<0, 0, 0, 0, 0, 0, 0, 0>>,
      <<255, 255, 255, 255, 255, 255, 255, 255>>,
      <<1, 2, 3, 4, 5, 6, 7, 8>> }

CodecInit ==
    /\ argc = 2
    /\ max_hops = 0
    /\ dest_addr = None
    /\ ttl = 0
    /\ sock = 0
    /\ handles = <<>>
    /\ packet = <<>>
    /\ addr = None
    /\ host = None
    /\ pending = "none"
    /\ out = <<>>
    /\ log = <<>>
    /\ uncaught = "none"
    /\ exit_code = 0
    /\ start_time = -1
    /\ end_time = -1
    /\ recv_data = <<>>
    /\ rx = <<>>
    /\ returned = -1
    /\ \/ /\ pc = "_calculate_checksum"
          /\ buffer \in Buffers
          /\ icmp = [id |-> 0, timestamp |-> <<>>]
       \/ /\ pc = "create"
          /\ buffer = <<>>
          /\ icmp \in [id : Ids, timestamp : Payloads]

CalculateChecksum ==
    /\ pc = "_calculate_checksum"
    /\ returned' = _calculate_checksum(buffer)
    /\ pc' = "done"
    /\ UNCHANGED <<argc, max_hops, dest_addr, ttl, sock, handles, icmp, packet,
                   addr, host, pending, out, log, uncaught, exit_code, clock,
                   wire, buffer>>

Create ==
    /\ pc = "create"
    /\ ttl = 0
    /\ packet' = create(icmp)
    /\ pc' = "done"
    /\ UNCHANGED <<argc, max_hops, dest_addr, ttl, sock, handles, icmp, addr,
                   host, pending, out, log, uncaught, exit_code, clock, wire,
                   codec>>

CodecNext == CalculateChecksum \/ Create

CodecSpec == CodecInit /\ [][CodecNext]_vars

-----------------------------------------------------------------------------
(* Traceroute(destination, max_hops=n).run() for n around the largest TTL   *)
(* an IP header holds, on a path where no hop answers                      *)

TtlInit ==
    /\ pc = "main"
    /\ argc = 2
    /\ max_hops \in {255, 256}
    /\ dest_addr = None
    /\ ttl = 0
    /\ sock = 0
    /\ handles = <<>>
    /\ icmp = [id |-> 0, timestamp |-> <<>>]
    /\ packet = <<>>
    /\ addr = None
    /\ host = None
    /\ pending = "none"
    /\ out = <<>>
    /\ log = <<>>
    /\ uncaught = "none"
    /\ exit_code = 0
    /\ start_time = -1
    /\ end_time = -1
    /\ recv_data = <<>>
    /\ rx = <<>>
    /\ buffer = <<>>
    /\ returned = -1

TtlNext ==
    \/ Main
    \/ ResolveOk
    \/ LoopNext
    \/ OpenOk
    \/ SetTtlOk
    \/ SetTtlError
    \/ CreatePacket
    \/ SendOk
    \/ ReceiveTimeout
    \/ Close

TtlSpec == TtlInit /\ [][TtlNext]_vars

-----------------------------------------------------------------------------
(* Vocabulary of the properties *)

Last(s) == s[Len(s)]

\* a hop line whose responder is the destination: the hop that ends the trace
IsFinal(r) == r.addr # None /\ r.addr = dest_addr

IsTimeout(r) == r.addr = None

HopsAttempted == ttl

ResolutionFailed == Calls("gethostbyname") = 1 /\ dest_addr = None

OpenWasDenied == Calls("open_denied") > 0

\* an OSError raised by set_ttl or send_packet ended the run
TransportStepFailed ==
    /\ pc = "done"
    /\ uncaught = "OSError"
    /\ Last(log).op \in {"set_ttl", "send"}

\* an OSError raised by receive ended the run, after the finally block
ReceiveFailed ==
    /\ pc = "done"
    /\ uncaught = "OSError"
    /\ Last(log).op = "close"

\* run() returned after the loop, by exhaustion or by break
LoopEnded == pc = "done" /\ uncaught = "none" /\ dest_addr # None

ProbeOps == {"open", "open_denied", "set_ttl", "send", "receive", "close"}

-----------------------------------------------------------------------------
\* C1: when a run in which opens succeed and set_ttl and send raise nothing
\* ends, whatever each receive did (datagram, timeout, other error), the
\* number of open calls = the number of close calls = the hops attempted.
C1_ResourceDiscipline ==
    (pc = "done" /\ ~OpenWasDenied /\ ~TransportStepFailed) =>
        /\ Calls("open") = Calls("close")
        /\ Calls("close") = HopsAttempted
        /\ OpenHandles = {}

\* a run whose second hop ended in a receive error
C1_Witness ==
    /\ ReceiveFailed
    /\ HopsAttempted = 2
    /\ Calls("open") = 2

-----------------------------------------------------------------------------
\* C2: every opened handle has been closed exactly once whenever control is
\* between hops or the run has ended, on every exit path of the hop,
\* errors of set_ttl, send_packet and receive included.
C2_ClosedOnEveryExit ==
    pc \in {"loop", "done"} =>
        \A h \in 1..Len(handles) : handles[h].closes = 1

-----------------------------------------------------------------------------
\* C3: no error of a hop's transport steps leaves run(): every hop that was
\* attempted on an opened handle yields a hop line and the loop goes on or
\* ends normally.
C3_ErrorsContained ==
    /\ uncaught # "OSError"
    /\ (pc \in {"loop", "done"} /\ ~OpenWasDenied) => Len(out) = HopsAttempted

-----------------------------------------------------------------------------
\* C4: the hop lines carry the TTLs 1, 2, 3, ... in that order, without gap
\* or repeat; and when every receive timed out and the loop ended, there
\* are exactly max_hops lines, TTLs 1..max_hops, none of them final.
C4_HopOrder ==
    /\ \A i \in 1..Len(out) : out[i].ttl = i
    /\ (LoopEnded /\ \A i \in 1..Len(out) : IsTimeout(out[i])) =>
          /\ Len(out) = max_hops
          /\ \A i \in 1..Len(out) : ~IsFinal(out[i])

\* max_hops timeouts in a row, for the largest max_hops of the model
C4_Witness ==
    /\ LoopEnded
    /\ max_hops = MaxHops
    /\ Len(out) = max_hops
    /\ \A i \in 1..Len(out) : IsTimeout(out[i])

-----------------------------------------------------------------------------
\* C5: when the destination answers at the k-th attempt, the k-th hop line
\* is the last one and is final, exactly k lines exist once the run has
\* ended, and no socket is opened, configured or used for a TTL above k.
C5_EarlyTermination ==
    /\ \A k \in 1..Len(out) : IsFinal(out[k]) =>
          /\ k = Len(out)
          /\ HopsAttempted = k
          /\ Len(handles) = k
          /\ \A i \in 1..Len(log) : log[i].ttl <= k
    /\ (pc = "done" /\ addr # None /\ addr = dest_addr) =>
          /\ Len(out) = HopsAttempted
          /\ IsFinal(Last(out))

\* the destination answered the 3rd probe of a trace allowed more hops
C5_Witness ==
    /\ pc = "done"
    /\ Len(out) = 3
    /\ IsFinal(out[3])
    /\ max_hops > 3

-----------------------------------------------------------------------------
\* C6: every run reaches Done; at most max_hops sockets are asked for and at
\* most max_hops probes sent; and a run whose loop ended did so because the
\* last hop line is final or because TTL max_hops has been probed.
C6_Termination ==
    /\ <>(pc = "done")
    /\ [](Calls("open") + Calls("open_denied") <= max_hops)
    /\ [](Calls("send") <= max_hops)
    /\ [](LoopEnded =>
            \/ (out # <<>> /\ IsFinal(Last(out)))
            \/ (HopsAttempted = max_hops /\ Len(out) = max_hops))

\* max_hops exhausted although routers answered
C6_Witness ==
    /\ LoopEnded
    /\ max_hops >= 2
    /\ Len(out) = max_hops
    /\ \A i \in 1..Len(out) : ~IsTimeout(out[i]) /\ ~IsFinal(out[i])

-----------------------------------------------------------------------------
\* C7: after a failed forward resolution the run is at Done and nothing was
\* probed: no socket opened, no TTL set, no packet sent, no hop line.
C7_NoProbeAfterResolveFailure ==
    ResolutionFailed =>
        /\ pc = "done"
        /\ HopsAttempted = 0
        /\ handles = <<>>
        /\ out = <<>>
        /\ \A i \in 1..Len(log) : log[i].op \notin ProbeOps

C7_Witness == ResolutionFailed /\ pc = "done" /\ argc = 2

-----------------------------------------------------------------------------
\* C8: a failed destination resolution ends the process with status 1, and
\* status 0 is produced only without usage, privilege or resolution failure.
C8_ExitCodes ==
    pc = "done" =>
        /\ ResolutionFailed => exit_code = 1
        /\ exit_code = 0 => (argc = 2 /\ ~OpenWasDenied /\ ~ResolutionFailed)

-----------------------------------------------------------------------------
\* C9: a denied open ends the run at once with status 1: the denied open is
\* the last transport call, its TTL is the last TTL tried, and the resolver
\* was called once, before it.
C9_PermissionDeniedIsFatal ==
    OpenWasDenied =>
        /\ pc = "done"
        /\ exit_code = 1
        /\ Calls("open_denied") = 1
        /\ Last(log).op = "open_denied"
        /\ Last(log).ttl = HopsAttempted
        /\ Calls("gethostbyname") = 1
        /\ log[1].op = "gethostbyname"

C9_Witness == OpenWasDenied /\ HopsAttempted = 1 /\ out = <<>>

-----------------------------------------------------------------------------
\* 16-bit one's-complement sum with end-around carry of a buffer's words
RECURSIVE EndAroundCarry(_)
EndAroundCarry(s) ==
    IF s < 65536 THEN s ELSE EndAroundCarry((s \div 65536) + (s % 65536))

OnesComplementSum(bytes) ==
    LET w(k) == bytes[2 * k - 1] + 256 * bytes[2 * k]
        RECURSIVE Sum(_)
        Sum(k) == IF k = 0 THEN 0 ELSE w(k) + Sum(k - 1)
    IN  EndAroundCarry(Sum(Len(bytes) \div 2))

\* C10: the 16 bytes create() returns verify under the Internet checksum:
\* the one's-complement sum of their eight words is 0xFFFF.
C10_ChecksumVerifies ==
    packet # <<>> =>
        /\ Len(packet) = 16
        /\ OnesComplementSum(packet) = 65535

-----------------------------------------------------------------------------
\* RFC 1071 over a buffer of any length: the complement of the sum of its
\* 16-bit words, low byte first, an odd last byte counted as a low byte,
\* with every carry out of bit 16 added back until none remains
Rfc1071(bytes) ==
    LET n == Len(bytes)
        w(k) == bytes[2 * k - 1] + (IF 2 * k <= n THEN 256 * bytes[2 * k] ELSE 0)
        RECURSIVE Sum(_)
        Sum(k) == IF k = 0 THEN 0 ELSE w(k) + Sum(k - 1)
    IN  65535 - EndAroundCarry(Sum((n + 1) \div 2))

\* C11: for every buffer, of even or odd length, _calculate_checksum
\* returns the RFC 1071 checksum of the buffer.
C11_MatchesRfc1071 ==
    returned # -1 => returned = Rfc1071(buffer)

-----------------------------------------------------------------------------
\* struct.unpack('H', bytes[i..i+1]) on the host that packed them
UnpackH(bytes, i) == bytes[i] + 256 * bytes[i + 1]

\* C12: the packet create() returns is 16 bytes long; its type, code,
\* identifier and sequence fields decode to 8, 0, the identifier given and
\* 1; its bytes 8-15 are the timestamp's encoding, untouched by the rewrite
\* of the checksum field.
C12_HeaderRoundTrip ==
    packet # <<>> =>
        /\ Len(packet) = 16
        /\ packet[1] = 8
        /\ packet[2] = 0
        /\ UnpackH(packet, 5) = icmp.id
        /\ UnpackH(packet, 7) = 1
        /\ SubSeq(packet, 9, 16) = icmp.timestamp

\* an identifier whose two bytes differ, with a checksum that is not 0
C12_Witness ==
    /\ pc = "done"
    /\ packet # <<>>
    /\ icmp.id = 4660
    /\ UnpackH(packet, 3) # 0
    /\ icmp.timestamp = <<1, 2, 3, 4, 5, 6, 7, 8>>

-----------------------------------------------------------------------------
\* positions in the log of the calls `op` made for TTL t
At(op, t) == {i \in 1..Len(log) : log[i].op = op /\ log[i].ttl = t}

\* C13: at most one handle is open in any state, and it is the one bound to
\* `sock`; an open (granted or denied) or a send for TTL t+1 comes only after
\* the receive for TTL t has returned and the handle of TTL t was closed.
C13_OneHopAtATime ==
    /\ Cardinality(OpenHandles) <= 1
    /\ OpenHandles \subseteq {sock}
    /\ \A i \in 1..Len(log) :
          (log[i].op \in {"open", "open_denied", "send"} /\ log[i].ttl > 1) =>
              \E j \in At("receive", log[i].ttl - 1),
                 k \in At("close", log[i].ttl - 1) :
                  /\ j < k
                  /\ k < i
                  /\ handles[log[k].h].closes = 1

\* the third handle is open and the two before it are closed
C13_Witness ==
    /\ pc = "receive"
    /\ Len(handles) = 3
    /\ OpenHandles = {3}
    /\ At("send", 3) # {}

-----------------------------------------------------------------------------
\* the calls made on handle h, in order
OpsOf(h) ==
    LET OnH(e) == e.h = h
        calls  == SelectSeq(log, OnH)
    IN  [i \in 1..Len(calls) |-> calls[i].op]

Protocol == <<"open", "set_ttl", "send", "receive", "close">>

\* C14: once a hop is over, its handle has served one TTL and has gone
\* through open, set_ttl, send, receive-or-timeout, close, in that order and
\* once each; one packet was sent for the TTL, with the TTL as identifier.
C14_HandleProtocol ==
    pc \in {"loop", "done"} =>
        \A h \in 1..Len(handles) :
            /\ OpsOf(h) = Protocol
            /\ \A i \in 1..Len(log) : log[i].h = h => log[i].ttl = handles[h].ttl
            /\ Cardinality(At("send", handles[h].ttl)) = 1

\* What holds of every handle in every state: its calls are a beginning of
\* the protocol, all for its one TTL, no TTL is given two handles, and the
\* handle of a hop that printed its line went through the whole protocol.
C14_ProtocolPrefix ==
    \A h \in 1..Len(handles) :
        /\ Len(OpsOf(h)) <= Len(Protocol)
        /\ OpsOf(h) = SubSeq(Protocol, 1, Len(OpsOf(h)))
        /\ handles[h].ttl = h
        /\ \A i \in 1..Len(log) : log[i].h = h => log[i].ttl = h
        /\ (h <= Len(out) /\ pc # "finally") => OpsOf(h) = Protocol

-----------------------------------------------------------------------------
\* C15: within a hop the timestamp the round-trip time starts from is read
\* before the packet is sent and the one it ends at after receive returned,
\* so the time reported spans from before the send to after the receive.
C15_TimingOrder ==
    /\ (pc \in {"receive", "get_hostname", "print", "finally"}) =>
          \A i \in At("send", ttl) : start_time < i
    /\ (pc \in {"get_hostname", "print"}) =>
          \A j \in At("receive", ttl) : end_time >= j
    /\ \A t \in 1..Len(out) :
          out[t].addr # None =>
              \A i \in At("send", t), j \in At("receive", t) :
                  out[t].rtt >= j - (i - 1)

-----------------------------------------------------------------------------
\* C16: whatever bytes a datagram holds, it is taken as the hop's answer:
\* the hop lines and the end of the trace are determined by rx, the record
\* of each receive's outcome and source address, which holds no datagram
\* bytes, so runs that differ in those bytes alone print the same hop lines.
C16_ContentIndependent ==
    /\ Len(out) <= Len(rx)
    /\ \A t \in 1..Len(out) :
          /\ rx[t].ttl = t
          /\ out[t].addr = (IF rx[t].kind = "data" THEN rx[t].src ELSE None)
    /\ pc \in {"loop", "finally", "done"} =>
          \A t \in 1..Len(rx) : rx[t].kind = "data" => t <= Len(out)
    /\ \A t \in 1..Len(rx) :
          (rx[t].kind = "data" /\ rx[t].src = dest_addr) => t = Len(rx)
    /\ (LoopEnded /\ Len(rx) < max_hops) =>
          (rx # <<>> /\ Last(rx).kind = "data" /\ Last(rx).src = dest_addr)

\* a port-unreachable datagram from the destination ended the trace at the
\* second hop, after a datagram was taken as the answer of the first
C16_Witness ==
    /\ LoopEnded
    /\ Len(out) = 2
    /\ max_hops > 2
    /\ recv_data = <<3, 3>>
    /\ IsFinal(out[2])
    /\ out[1].addr # None

-----------------------------------------------------------------------------
\* the reverse lookups made for TTL t, answered or failed
Lookups(t) == At("gethostbyaddr", t) \cup At("gethostbyaddr_herror", t)

\* C17: a reverse lookup is made only for a hop whose receive returned a
\* datagram, once, and never after a timeout; when it fails the hop prints
\* its line with the address as the name, and no error of the lookup ends
\* the hop or the run.
C17_ReverseLookupBestEffort ==
    /\ \A t \in 1..ttl :
          /\ Lookups(t) # {} => (t <= Len(rx) /\ rx[t].kind = "data")
          /\ Cardinality(Lookups(t)) <= 1
    /\ \A t \in 1..Len(rx) :
          (rx[t].kind = "data" /\ (t < ttl \/ pc \in {"print", "finally", "loop", "done"}))
              => Cardinality(Lookups(t)) = 1
    /\ \A t \in 1..ttl :
          (At("gethostbyaddr_herror", t) # {} /\ pc # "print") =>
              /\ t <= Len(out)
              /\ out[t].addr = rx[t].src
              /\ out[t].host = out[t].addr
    /\ uncaught = "OSError" => (TransportStepFailed \/ Last(rx).kind = "error")

\* the lookup failed at the first hop and the trace went on to a second line
C17_Witness ==
    /\ LoopEnded
    /\ At("gethostbyaddr_herror", 1) # {}
    /\ Len(out) >= 2
    /\ out[1].host = out[1].addr
    /\ rx[2].kind = "timeout"

-----------------------------------------------------------------------------
\* C18: whatever max_hops is configured, every TTL handed to set_ttl lies
\* in 1..255, and a handle's TTL is set before a packet is sent on it.
C18_TtlRange ==
    \A i \in 1..Len(log) :
        /\ log[i].op = "set_ttl" => log[i].ttl \in 1..255
        /\ log[i].op = "send" =>
              \E j \in 1..(i - 1) : log[j].op = "set_ttl" /\ log[j].h = log[i].h

-----------------------------------------------------------------------------
\* C19: the open of any hop n may be the one denied; when it is, the
\* handles of hops 1..n-1 have each been closed once, none is open, the hop
\* lines of TTLs 1..n-1 have been printed in order, and the exit status is 1.
C19_DenialAtAnyHop ==
    OpenWasDenied =>
        /\ pc = "done"
        /\ exit_code = 1
        /\ Len(handles) = HopsAttempted - 1
        /\ \A h \in 1..Len(handles) : handles[h].closes = 1 /\ At("close", h) # {}
        /\ OpenHandles = {}
        /\ Len(out) = HopsAttempted - 1
        /\ \A t \in 1..Len(out) : out[t].ttl = t

\* the open of the third hop was denied, after a timeout and an answer
C19_Witness ==
    /\ OpenWasDenied
    /\ HopsAttempted = 3
    /\ IsTimeout(out[1])
    /\ ~IsTimeout(out[2])

====
